---------------------------- MODULE Spec2Model ----------------------------
(***************************************************************************)
(* A model of the Emmet abbreviation expander (src/src/emmet.ts) and of    *)
(* the interactive surface that calls it (src/src/app.tsx).                *)
(*                                                                         *)
(* Strings are sequences of one-character strings, so that the parser's    *)
(* cursor, the numbering substitution and the escaping are computed        *)
(* character by character, as the code computes them.  The cursor `pos`    *)
(* is 0-based as in the code; input[pos] of the code is input[pos + 1]     *)
(* here.                                                                   *)
(***************************************************************************)
EXTENDS Integers, Sequences, FiniteSets

(***************************************************************************)
(* Bounds of the model.                                                    *)
(***************************************************************************)
\* longest abbreviation of the exhaustive family over the combinator alphabet
MaxLen == 4
\* longest abbreviation of the exhaustive family over the id/class alphabet
MaxIdLen == 5
\* largest multiplier count written in an abbreviation of the families
MaxCount == 10
\* longest numbering template (id, class, attribute value, text)
MaxTmpl == 3
\* longest text / attribute value of the escaping family
MaxText == 2
\* most attribute names in one [...] list of the attribute family
MaxAttrs == 3
\* most root nodes the top-level loop may accumulate before memory runs out
MaxNodes == 6
\* longest abbreviation typed into the textarea
MaxTyped == 2
\* most copy requests in flight at once in the interactive surface
MaxCopies == 1
\* objects allocated in one parse of the heap model
MaxHeap == 28
\* forests held at once by the parser's frames in the heap model
MaxStack == 3
\* the largest multiplier count of the heap model
MaxRepeat == 2

(***************************************************************************)
(* Characters and strings.                                                 *)
(***************************************************************************)
\* the value of input[pos] when pos is out of range
Undefined == "undefined"

\* an optional value: None, or Some(v)
None == << >>
Some(v) == << v >>
Val(o) == o[1]

Digits == << "0", "1", "2", "3", "4", "5", "6", "7", "8", "9" >>

DigitChars == { Digits[i] : i \in 1..10 }

LetterChars ==
    { "a", "b", "c", "d", "e", "f", "g", "h", "i", "j", "k", "l", "m",
      "n", "o", "p", "q", "r", "s", "t", "u", "v", "w", "x", "y", "z",
      "A", "B", "C", "D", "E", "F", "G", "H", "I", "J", "K", "L", "M",
      "N", "O", "P", "Q", "R", "S", "T", "U", "V", "W", "X", "Y", "Z" }

\* /[a-zA-Z0-9\-\_\:$]/
IDENTIFIER_CHARS == LetterChars \cup DigitChars \cup { "-", "_", ":", "$" }

\* the characters /\s/ matches (those that can be typed into the textarea)
WhitespaceChars == { " ", "\t", "\n", "\r" }

RECURSIVE Concat(_)
\* the concatenation of a sequence of strings
Concat(ss) ==
    IF ss = << >> THEN << >> ELSE Head(ss) \o Concat(Tail(ss))

RECURSIVE Join(_, _)
\* Array.prototype.join
Join(ss, sep) ==
    IF ss = << >> THEN << >>
    ELSE IF Len(ss) = 1 THEN ss[1]
    ELSE ss[1] \o sep \o Join(Tail(ss), sep)

RECURSIVE Repeat(_, _)
\* String.prototype.repeat
Repeat(s, n) ==
    IF n <= 0 THEN << >> ELSE s \o Repeat(s, n - 1)

RECURSIVE Split(_, _)
\* String.prototype.split on a one-character separator
Split(s, sep) ==
    IF \A i \in 1..Len(s) : s[i] # sep THEN << s >>
    ELSE LET k == CHOOSE i \in 1..Len(s) :
                      s[i] = sep /\ \A j \in 1..(i - 1) : s[j] # sep
         IN  << SubSeq(s, 1, k - 1) >> \o Split(SubSeq(s, k + 1, Len(s)), sep)

\* String.prototype.replace(/c/g, repl)
ReplaceAll(s, c, repl) ==
    Concat([i \in 1..Len(s) |-> IF s[i] = c THEN repl ELSE << s[i] >>])

\* String.prototype.includes for one character
Includes(s, c) == \E i \in 1..Len(s) : s[i] = c

\* String.prototype.trim
Trim(s) ==
    LET keep == { i \in 1..Len(s) : s[i] \notin WhitespaceChars }
    IN  IF keep = {} THEN << >>
        ELSE LET lo == CHOOSE i \in keep : \A j \in keep : i <= j
                 hi == CHOOSE i \in keep : \A j \in keep : j <= i
             IN  SubSeq(s, lo, hi)

DigitValue(c) == CHOOSE d \in 0..9 : Digits[d + 1] = c

RECURSIVE ParseInt(_)
\* Number.parseInt(value, 10) of a non-empty string of decimal digits
ParseInt(ds) ==
    IF ds = << >> THEN 0
    ELSE 10 * ParseInt(SubSeq(ds, 1, Len(ds) - 1)) + DigitValue(ds[Len(ds)])

RECURSIVE NumberToString(_)
\* Number.prototype.toString of a non-negative integer
NumberToString(n) ==
    IF n < 10 THEN << Digits[n + 1] >>
    ELSE NumberToString(n \div 10) \o << Digits[(n % 10) + 1] >>

\* String.prototype.padStart with a one-character filler
PadStart(s, width, fill) ==
    Repeat(<< fill >>, width - Len(s)) \o s

(***************************************************************************)
(* The node model.  A JavaScript object used as a mapping is modelled by   *)
(* its entries in insertion order; ObjectEntries gives the order in which  *)
(* the engine enumerates them.                                             *)
(***************************************************************************)
\* { tag: tag || 'div', classes: [], attributes: {}, children: [] }
NewNode(tag) ==
    [ tag        |-> IF tag = << >> THEN << "d", "i", "v" >> ELSE tag,
      id         |-> None,
      classes    |-> << >>,
      attributes |-> << >>,
      text       |-> None,
      children   |-> << >> ]

\* an attribute value: the flag `true`, or a string
Flag == [ flag |-> TRUE, value |-> << >> ]
StringValue(v) == [ flag |-> FALSE, value |-> v ]

\* a string that is truthy: defined and not empty
Truthy(o) == o # << >> /\ o[1] # << >>

\* obj[key] = value: a new key is appended, an existing key keeps its place
ObjectSet(obj, key, value) ==
    IF \E i \in 1..Len(obj) : obj[i].key = key
    THEN [ i \in 1..Len(obj) |->
             IF obj[i].key = key THEN [ key |-> key, value |-> value ]
             ELSE obj[i] ]
    ELSE Append(obj, [ key |-> key, value |-> value ])

\* a canonical array index: the decimal string of an integer, no leading zero
IsArrayIndex(key) ==
    /\ key # << >>
    /\ \A i \in 1..Len(key) : key[i] \in DigitChars
    /\ Len(key) = 1 \/ key[1] # "0"

\* the entries of es in ascending numeric order of their keys
SortByIndex(es) ==
    LET before(i, j) ==
            \/ ParseInt(es[i].key) < ParseInt(es[j].key)
            \/ ParseInt(es[i].key) = ParseInt(es[j].key) /\ i < j
        place(i) == 1 + Cardinality({ j \in 1..Len(es) : before(j, i) })
    IN  [ k \in 1..Len(es) |-> es[CHOOSE i \in 1..Len(es) : place(i) = k] ]

\* Object.entries: the own properties in the engine's enumeration order,
\* integer-like keys first in ascending order, then the others as inserted
ObjectEntries(obj) ==
    SortByIndex(SelectSeq(obj, LAMBDA e : IsArrayIndex(e.key))) \o
    SelectSeq(obj, LAMBDA e : ~IsArrayIndex(e.key))

(***************************************************************************)
(* Multiplier / numbering engine.                                          *)
(***************************************************************************)
RECURSIVE RunEnd(_, _)
\* the end (exclusive) of the run of '$' that starts at i
RunEnd(s, i) ==
    IF i <= Len(s) /\ s[i] = "$" THEN RunEnd(s, i + 1) ELSE i

\* the replacement with the repetition index as it is, 0-based
NumberingValueZeroBased(matchLength, index) ==
    PadStart(NumberToString(index), matchLength, "0")

\* (index + 1).toString().padStart(match.length, '0')
NumberingValue(matchLength, index) ==
    PadStart(NumberToString(index + 1), matchLength, "0")

RECURSIVE ApplyNumberingFrom(_, _, _)
\* the matches of /\$+/g from i on, each replaced
ApplyNumberingFrom(template, i, index) ==
    IF i > Len(template) THEN << >>
    ELSE IF template[i] = "$"
    THEN NumberingValue(RunEnd(template, i) - i, index)
         \o ApplyNumberingFrom(template, RunEnd(template, i), index)
    ELSE << template[i] >> \o ApplyNumberingFrom(template, i + 1, index)

ApplyNumbering(template, index) == ApplyNumberingFrom(template, 1, index)

\* useNumbering ? applyNumbering(value, index) : value
CloneString(value, index, useNumbering) ==
    IF useNumbering THEN ApplyNumbering(value, index) ELSE value

\* the loop of cloneNode over Object.entries(node.attributes)
CloneAttributes(entries, index, useNumbering) ==
    [ i \in 1..Len(entries) |->
        IF entries[i].value.flag THEN entries[i]
        ELSE [ key   |-> entries[i].key,
               value |-> StringValue(CloneString(entries[i].value.value,
                                                 index, useNumbering)) ] ]

RECURSIVE CloneNode(_, _, _)
CloneNode(node, index, useNumbering) ==
    [ tag        |-> node.tag,
      id         |-> IF Truthy(node.id)
                     THEN Some(CloneString(Val(node.id), index, useNumbering))
                     ELSE None,
      classes    |-> [ i \in 1..Len(node.classes) |->
                         CloneString(node.classes[i], index, useNumbering) ],
      attributes |-> CloneAttributes(ObjectEntries(node.attributes),
                                     index, useNumbering),
      text       |-> IF Truthy(node.text)
                     THEN Some(CloneString(Val(node.text), index, useNumbering))
                     ELSE None,
      children   |-> [ i \in 1..Len(node.children) |->
                         CloneNode(node.children[i], index, useNumbering) ] ]

\* clones on which the numbering of repetition 0 is applied
CloneNodesNumbered(nodes) ==
    [ j \in 1..Len(nodes) |-> CloneNode(nodes[j], 0, TRUE) ]

CloneNodes(nodes) ==
    [ j \in 1..Len(nodes) |-> CloneNode(nodes[j], 0, FALSE) ]

RECURSIVE RepeatInner(_, _, _, _)
\* for (const node of nodes) result.push(cloneNode(node, i, true))
RepeatInner(nodes, j, i, result) ==
    IF j > Len(nodes) THEN result
    ELSE RepeatInner(nodes, j + 1, i, Append(result, CloneNode(nodes[j], i, TRUE)))

RECURSIVE RepeatOuter(_, _, _, _)
\* for (let i = 0; i < count; i++) ...
RepeatOuter(nodes, count, i, result) ==
    IF ~(i < count) THEN result
    ELSE RepeatOuter(nodes, count, i + 1, RepeatInner(nodes, 1, i, result))

\* the loops exchanged: every repetition of one node, then the next node
RepeatNodesNodeMajor(nodes, count) ==
    [ k \in 1..(count * Len(nodes)) |->
        CloneNode(nodes[((k - 1) \div count) + 1], (k - 1) % count, TRUE) ]

RepeatNodes(nodes, count) == RepeatOuter(nodes, count, 0, << >>)

(***************************************************************************)
(* Renderer.                                                               *)
(***************************************************************************)
Amp == << "&", "a", "m", "p", ";" >>
Lt == << "&", "l", "t", ";" >>
Gt == << "&", "g", "t", ";" >>
Quot == << "&", "q", "u", "o", "t", ";" >>

\* the replacements in another order: '&' after '<' and '>'
EscapeHtmlAmpLast(value) ==
    ReplaceAll(ReplaceAll(ReplaceAll(value, "<", Lt), ">", Gt), "&", Amp)

\* value.replace(/&/g, '&amp;').replace(/</g, '&lt;').replace(/>/g, '&gt;')
EscapeHtml(value) ==
    ReplaceAll(ReplaceAll(ReplaceAll(value, "&", Amp), "<", Lt), ">", Gt)

\* escapeHtml(value).replace(/"/g, '&quot;')
EscapeAttribute(value) == ReplaceAll(EscapeHtml(value), "\"", Quot)

IndentMultiline(text, level) ==
    LET indent(lines) ==
            [ i \in 1..Len(lines) |-> Repeat(<< " ", " " >>, level) \o lines[i] ]
    IN  Join(indent(Split(text, "\n")), << "\n" >>)

\* the loop of buildAttributeList over Object.entries(node.attributes)
OtherAttributes(entries) ==
    [ i \in 1..Len(entries) |->
        IF entries[i].value.flag THEN entries[i].key
        ELSE entries[i].key \o << "=", "\"" >>
             \o EscapeAttribute(entries[i].value.value) \o << "\"" >> ]

BuildAttributeList(node) ==
    Join((IF Truthy(node.id)
          THEN << << "i", "d", "=", "\"" >> \o EscapeAttribute(Val(node.id))
                  \o << "\"" >> >>
          ELSE << >>)
         \o (IF Len(node.classes) > 0
             THEN << << "c", "l", "a", "s", "s", "=", "\"" >>
                     \o EscapeAttribute(Join(node.classes, << " " >>))
                     \o << "\"" >> >>
             ELSE << >>)
         \o OtherAttributes(ObjectEntries(node.attributes)),
         << " " >>)

\* `<${node.tag}${attributes ? ' ' + attributes : ''}>`
OpenTag(tag, attributes) ==
    << "<" >> \o tag
    \o (IF attributes # << >> THEN << " " >> \o attributes ELSE << >>)
    \o << ">" >>

CloseTag(tag) == << "<", "/" >> \o tag \o << ">" >>

\* renderNode once its constants are computed; text is the escaped text
\* indented one level deeper, children the blocks of the children
RenderBlock(node, indentation, openTag, closeTag, text, children) ==
    IF Len(node.children) = 0
    THEN IF Truthy(node.text) /\ Includes(Val(node.text), "\n")
         THEN indentation \o openTag \o << "\n" >> \o text \o << "\n" >>
              \o indentation \o closeTag
         ELSE IF Truthy(node.text)
         THEN indentation \o openTag \o EscapeHtml(Val(node.text)) \o closeTag
         ELSE indentation \o openTag \o closeTag
    ELSE indentation \o openTag \o << "\n" >>
         \o (IF Truthy(node.text) THEN << "\n" >> \o text \o << "\n" >> ELSE << >>)
         \o Join(children, << "\n" >>)
         \o << "\n" >> \o indentation \o closeTag

RECURSIVE RenderNode(_, _)
RenderNode(node, level) ==
    RenderBlock(node,
                Repeat(<< " ", " " >>, level),
                OpenTag(node.tag, BuildAttributeList(node)),
                CloseTag(node.tag),
                IndentMultiline(EscapeHtml(Val(node.text)), level + 1),
                [ i \in 1..Len(node.children) |->
                    RenderNode(node.children[i], level + 1) ])

RenderNodes(nodes) ==
    Join([ i \in 1..Len(nodes) |-> RenderNode(nodes[i], 0) ], << "\n" >>)

(***************************************************************************)
(* The parser's cursor.  A parsing operator takes the input and the cursor *)
(* and returns a record: st is "ok" (val is the value returned and pos the *)
(* cursor after it), "throw" (err is the error thrown) or "diverge" (the   *)
(* call never returns).                                                    *)
(***************************************************************************)
NoError == [ message |-> "", ch |-> "", pos |-> -1 ]

\* new Error(`${message} at position ${this.pos}`); ch is the character the
\* message quotes, if it quotes one
Error(message, ch, pos) == [ message |-> message, ch |-> ch, pos |-> pos ]

Ok(pos, val) == [ st |-> "ok", pos |-> pos, val |-> val, err |-> NoError ]

Throw(message, ch, pos) ==
    [ st |-> "throw", pos |-> pos, val |-> << >>, err |-> Error(message, ch, pos) ]

Diverge(pos) == [ st |-> "diverge", pos |-> pos, val |-> << >>, err |-> NoError ]

Peek(input, pos) == IF pos < Len(input) THEN input[pos + 1] ELSE Undefined

IsEnd(input, pos) == pos >= Len(input)

RECURSIVE SkipWhitespace(_, _)
SkipWhitespace(input, pos) ==
    IF ~IsEnd(input, pos) /\ Peek(input, pos) \in WhitespaceChars
    THEN SkipWhitespace(input, pos + 1)
    ELSE pos

PeekIsIdentifier(input, pos) ==
    Peek(input, pos) # Undefined /\ Peek(input, pos) \in IDENTIFIER_CHARS

RECURSIVE ConsumeIdentifierFrom(_, _, _)
ConsumeIdentifierFrom(input, pos, value) ==
    IF ~IsEnd(input, pos) /\ PeekIsIdentifier(input, pos)
    THEN ConsumeIdentifierFrom(input, pos + 1, Append(value, Peek(input, pos)))
    ELSE Ok(pos, value)

ConsumeIdentifier(input, pos) == ConsumeIdentifierFrom(input, pos, << >>)

ConsumeIdentifierOrThrow(input, pos, message) ==
    LET check(r) == IF r.val = << >> THEN Throw(message, "", r.pos) ELSE r
    IN  check(ConsumeIdentifier(input, pos))

RECURSIVE ConsumeNumberFrom(_, _, _)
ConsumeNumberFrom(input, pos, value) ==
    IF ~IsEnd(input, pos) /\ Peek(input, pos) \in DigitChars
    THEN ConsumeNumberFrom(input, pos + 1, Append(value, Peek(input, pos)))
    ELSE IF value = << >> THEN Throw("Expected number", "", pos)
    ELSE Ok(pos, ParseInt(value))

ConsumeNumber(input, pos) == ConsumeNumberFrom(input, pos, << >>)

RECURSIVE ConsumeTextFrom(_, _, _)
ConsumeTextFrom(input, pos, result) ==
    IF IsEnd(input, pos) THEN Throw("Unclosed text segment", "", pos)
    ELSE IF Peek(input, pos) = "}" THEN Ok(pos + 1, result)
    ELSE IF Peek(input, pos) = "\\"
    THEN IF Peek(input, pos + 1) # Undefined
         THEN ConsumeTextFrom(input, pos + 2, Append(result, Peek(input, pos + 1)))
         ELSE Throw("Unclosed text segment", "", pos + 1)
    ELSE ConsumeTextFrom(input, pos + 1, Append(result, Peek(input, pos)))

ConsumeText(input, pos) == ConsumeTextFrom(input, pos, << >>)

RECURSIVE ConsumeQuotedFrom(_, _, _, _)
ConsumeQuotedFrom(input, pos, quote, value) ==
    IF IsEnd(input, pos) THEN Throw("Unclosed quoted attribute value", "", pos)
    ELSE IF Peek(input, pos) = quote THEN Ok(pos + 1, value)
    ELSE IF Peek(input, pos) = "\\"
    THEN IF Peek(input, pos + 1) # Undefined
         THEN ConsumeQuotedFrom(input, pos + 2, quote,
                                Append(value, Peek(input, pos + 1)))
         ELSE Throw("Unclosed quoted attribute value", "", pos + 1)
    ELSE ConsumeQuotedFrom(input, pos + 1, quote, Append(value, Peek(input, pos)))

RECURSIVE ConsumeUnquotedFrom(_, _, _)
ConsumeUnquotedFrom(input, pos, value) ==
    IF ~IsEnd(input, pos) /\ Peek(input, pos) \notin { " ", ",", "]" }
    THEN ConsumeUnquotedFrom(input, pos + 1, Append(value, Peek(input, pos)))
    ELSE IF value = << >> THEN Throw("Expected attribute value", "", pos)
    ELSE Ok(pos, value)

ConsumeAttributeValue(input, pos) ==
    IF Peek(input, pos) = "\"" \/ Peek(input, pos) = "'"
    THEN ConsumeQuotedFrom(input, pos + 1, Peek(input, pos), << >>)
    ELSE ConsumeUnquotedFrom(input, pos, << >>)

RECURSIVE ParseAttributes(_, _, _)
\* the while loop of parseAttributes, from the cursor pos0 on
ParseAttributes(input, pos0, node) ==
    LET \* the separator after a pair, and the next pass
        rest(pos, attributes) ==
            ParseAttributes(input,
                            IF Peek(input, pos) = "," \/ Peek(input, pos) = " "
                            THEN pos + 1 ELSE pos,
                            [ node EXCEPT !.attributes = attributes ])
        withValue(name, value) ==
            IF value.st # "ok" THEN value
            ELSE rest(SkipWhitespace(input, value.pos),
                      ObjectSet(node.attributes, name, StringValue(value.val)))
        afterName(name, pos) ==
            IF name.st # "ok" THEN name
            ELSE IF Peek(input, pos) = "="
            THEN withValue(name.val,
                           ConsumeAttributeValue(input,
                                                 SkipWhitespace(input, pos + 1)))
            ELSE rest(SkipWhitespace(input, pos),
                      ObjectSet(node.attributes, name.val, Flag))
        named(name) == afterName(name, SkipWhitespace(input, name.pos))
        pass(pos) ==
            IF Peek(input, pos) = "]" THEN Ok(pos + 1, node)
            ELSE named(ConsumeIdentifierOrThrow(input, pos,
                                                "Expected attribute name"))
    IN  IF IsEnd(input, pos0) THEN Throw("Unclosed attribute set", "", pos0)
        ELSE pass(SkipWhitespace(input, pos0))

\* the test of `if (node.id)` left out
HasIdNever(node) == FALSE

\* if (node.id): an id segment has been parsed already
HasId(node) == Truthy(node.id)

RECURSIVE ParseElementFrom(_, _, _)
\* the while loop of parseElement
ParseElementFrom(input, pos, node) ==
    LET setId(r) ==
            IF r.st # "ok" THEN r
            ELSE ParseElementFrom(input, r.pos, [ node EXCEPT !.id = Some(r.val) ])
        addClass(r) ==
            IF r.st # "ok" THEN r
            ELSE ParseElementFrom(input, r.pos,
                                  [ node EXCEPT !.classes = Append(@, r.val) ])
        setAttributes(r) ==
            IF r.st # "ok" THEN r ELSE ParseElementFrom(input, r.pos, r.val)
        setText(r) ==
            IF r.st # "ok" THEN r
            ELSE ParseElementFrom(input, r.pos, [ node EXCEPT !.text = Some(r.val) ])
        segment(ch) ==
            CASE ch = "#" ->
                   IF HasId(node) THEN Throw("Duplicate id segment", "", pos + 1)
                   ELSE setId(ConsumeIdentifierOrThrow(input, pos + 1,
                                                       "Expected id after #"))
              [] ch = "." ->
                   addClass(ConsumeIdentifierOrThrow(input, pos + 1,
                                                     "Expected class name after ."))
              [] ch = "[" -> setAttributes(ParseAttributes(input, pos + 1, node))
              [] ch = "{" -> setText(ConsumeText(input, pos + 1))
              [] ch \in { ">", "+", "*", ")" } -> Ok(pos, node)
              [] OTHER -> Throw("Unexpected character within element", ch, pos)
    IN  IF IsEnd(input, pos) THEN Ok(pos, node) ELSE segment(Peek(input, pos))

ParseElement(input, pos) ==
    LET body(tag) == ParseElementFrom(input, tag.pos, NewNode(tag.val))
    IN  body(IF PeekIsIdentifier(input, pos) THEN ConsumeIdentifier(input, pos)
             ELSE Ok(pos, << >>))

(***************************************************************************)
(* Combinators: multiplier, group, child nesting, siblings.                *)
(***************************************************************************)
ApplyMultiplier(input, pos0, nodes) ==
    LET repeat(count) ==
            IF count.st # "ok" THEN count
            ELSE IF count.val <= 0
            THEN Throw("Multiplier must be greater than zero", "", count.pos)
            ELSE Ok(count.pos, RepeatNodes(nodes, count.val))
        multiply(pos) ==
            IF Peek(input, pos) # "*" THEN Ok(pos, nodes)
            ELSE repeat(ConsumeNumber(input, pos + 1))
    IN  multiply(SkipWhitespace(input, pos0))

\* parents.map((parent) => ({ ...parent, children: cloneNodes(children) }))
AttachChildren(parents, children) ==
    [ i \in 1..Len(parents) |->
        [ parents[i] EXCEPT !.children = CloneNodes(children) ] ]

RECURSIVE ParseExpressionFrom(_, _, _, _)
RECURSIVE ParseChildTermFrom(_, _, _, _)
RECURSIVE ParseExpression(_, _, _)
RECURSIVE ParsePrimary(_, _, _)
RECURSIVE ParseChildTerm(_, _, _)
RECURSIVE ParseExpressionPass(_, _, _)

ParseExpression(input, pos, terminators) ==
    ParseExpressionFrom(input, pos, terminators, << >>)

ParsePrimary(input, pos0, terminators) ==
    LET close(group) ==
            IF group.st # "ok" THEN group
            ELSE IF Peek(input, group.pos) # ")"
            THEN Throw("Unclosed group", "", group.pos)
            ELSE Ok(group.pos + 1, group.val)
        single(element) ==
            IF element.st # "ok" THEN element
            ELSE Ok(element.pos, << element.val >>)
        primary(pos) ==
            IF Peek(input, pos) = "("
            THEN close(ParseExpression(input, pos + 1, terminators \cup { ")" }))
            ELSE IF Peek(input, pos) = Undefined
            THEN Throw("Unexpected end of input", "", pos)
            ELSE single(ParseElement(input, pos))
    IN  primary(SkipWhitespace(input, pos0))

\* the while loop of parseChildTerm
ParseChildTermFrom(input, pos0, terminators, parents) ==
    LET attach(children) ==
            IF children.st # "ok" THEN children
            ELSE ParseChildTermFrom(input, children.pos, terminators,
                                    AttachChildren(parents, children.val))
        nest(pos) ==
            IF Peek(input, pos) # ">" THEN Ok(pos, parents)
            ELSE attach(ParseExpression(input, pos + 1, terminators \cup { ")" }))
    IN  nest(SkipWhitespace(input, pos0))

ParseChildTerm(input, pos, terminators) ==
    LET children(multiplied) ==
            IF multiplied.st # "ok" THEN multiplied
            ELSE ParseChildTermFrom(input, multiplied.pos, terminators,
                                    multiplied.val)
        multiplier(primary) ==
            IF primary.st # "ok" THEN primary
            ELSE children(ApplyMultiplier(input, primary.pos, primary.val))
    IN  multiplier(ParsePrimary(input, pos, terminators))

\* how a pass of the loop of parseExpression ends: ctl is "break" (the loop
\* is left), "next" (the loop goes round again), "throw", or "diverge" (a
\* call made by the pass never returns); chunk is what the pass pushed
Pass(ctl, pos, chunk, err) ==
    [ ctl |-> ctl, pos |-> pos, chunk |-> chunk, err |-> err ]

\* one pass of the while loop of parseExpression, started with the cursor
\* at pos0
ParseExpressionPass(input, pos0, terminators) ==
    LET afterChunk(term, pos, ch) ==
            IF ch = "+" THEN Pass("next", pos + 1, term.val, NoError)
            ELSE IF IsEnd(input, pos) \/ (ch # Undefined /\ ch \in terminators)
            THEN Pass("break", pos, term.val, NoError)
            ELSE IF ch = Undefined THEN Pass("break", pos, term.val, NoError)
            ELSE IF ch # ")"
            THEN Pass("throw", pos, << >>, Error("Unexpected character", ch, pos))
            ELSE Pass("next", pos, term.val, NoError)
        after(term, pos) == afterChunk(term, pos, Peek(input, pos))
        chunk(term) ==
            IF term.st # "ok" THEN Pass(term.st, term.pos, << >>, term.err)
            ELSE after(term, SkipWhitespace(input, term.pos))
        start(pos) ==
            IF IsEnd(input, pos)
               \/ (Peek(input, pos) # Undefined /\ Peek(input, pos) \in terminators)
            THEN Pass("break", pos, << >>, NoError)
            ELSE chunk(ParseChildTerm(input, pos, terminators))
    IN  start(SkipWhitespace(input, pos0))

\* The while loop of parseExpression.  What a pass does depends on the
\* input, the terminators and the cursor only, so a pass that goes round
\* again with the cursor where it found it is repeated for ever.
ParseExpressionFrom(input, pos, terminators, nodes) ==
    LET loop(r) ==
            CASE r.ctl = "break" -> Ok(r.pos, nodes \o r.chunk)
              [] r.ctl = "throw" ->
                    [ st |-> "throw", pos |-> r.pos, val |-> << >>, err |-> r.err ]
              [] r.ctl = "diverge" -> Diverge(r.pos)
              [] r.ctl = "next" ->
                    IF r.pos = pos THEN Diverge(pos)
                    ELSE ParseExpressionFrom(input, r.pos, terminators,
                                             nodes \o r.chunk)
    IN  loop(ParseExpressionPass(input, pos, terminators))

\* EmmetParser.parse
Parse(input) ==
    LET end(nodes, pos) ==
            IF ~IsEnd(input, pos)
            THEN Throw("Unexpected character", Peek(input, pos), pos)
            ELSE Ok(pos, nodes.val)
        finish(nodes) ==
            IF nodes.st # "ok" THEN nodes
            ELSE end(nodes, SkipWhitespace(input, nodes.pos))
    IN  finish(ParseExpression(input, 0, {}))

\* the test of `if (nodes.length === 0)` left out
NoNodesNever(nodes) == FALSE

\* if (nodes.length === 0)
NoNodes(nodes) == Len(nodes) = 0

\* what a call of expandAbbreviation produces: st is "ok" (html and nodes
\* are returned), "throw" (err is thrown) or "diverge" (no return)
Outcome(st, html, nodes, err) ==
    [ st |-> st, html |-> html, nodes |-> nodes, err |-> err ]

ExpandAbbreviation(abbreviation) ==
    LET expand(parsed) ==
            IF parsed.st = "diverge" THEN Outcome("diverge", << >>, << >>, NoError)
            ELSE IF parsed.st = "throw"
            THEN Outcome("throw", << >>, << >>, parsed.err)
            ELSE IF NoNodes(parsed.val)
            THEN Outcome("throw", << >>, << >>,
                         Error("No nodes produced for abbreviation", "", -1))
            ELSE Outcome("ok", RenderNodes(parsed.val), parsed.val, NoError)
    IN  IF Trim(abbreviation) = << >>
        THEN Outcome("throw", << >>, << >>, Error("Abbreviation is empty", "", -1))
        ELSE expand(Parse(abbreviation))

(***************************************************************************)
(* The abbreviations the model expands.                                    *)
(***************************************************************************)
\* every string over alphabet of length at most n
Strs(alphabet, n) == UNION { [ 1..k -> alphabet ] : k \in 0..n }

\* combinators, groups and whitespace, exhaustively
CombinatorAbbreviations == Strs({ "a", "(", ")", "+", ">", " " }, MaxLen)

\* id and class segments, exhaustively
IdAbbreviations == Strs({ "a", "#", ".", "+" }, MaxIdLen)

\* numbering templates: letters and placeholders
Templates == Strs({ "x", "$" }, MaxTmpl) \ { << >> }

Counts == 1..MaxCount

Times(n) == << "*" >> \o NumberToString(n)

\* one element with a template in its id, class, attribute value or text,
\* multiplied
NumberedAbbreviations ==
    { << "a", "#" >> \o t \o Times(n) : t \in Templates, n \in Counts }
    \cup { << "a", "." >> \o t \o Times(n) : t \in Templates, n \in Counts }
    \cup { << "a", "[", "b", "=" >> \o t \o << "]" >> \o Times(n) :
             t \in Templates, n \in Counts }
    \cup { << "a", "{" >> \o t \o << "}" >> \o Times(n) :
             t \in Templates, n \in Counts }

GroupBodies ==
    { << "a", "+", "b" >>,
      << "a", ".", "x", "$", "+", "b", "#", "y", "$", "$" >>,
      << "a", ">", "b", ".", "x", "$" >>,
      << "a", "{", "$", "}", "+", "b", "+", "c" >> }

\* a group, multiplied
RepeatedAbbreviations ==
    { << "(" >> \o g \o << ")" >> \o Times(n) : g \in GroupBodies, n \in Counts }

Parents ==
    { << "a" >>,
      << "a", ".", "c", "$" >>,
      << "(", "a", "+", "b", "#", "i", "$", ")" >> }

Children ==
    { << "b" >>,
      << "b", ".", "x", "$" >>,
      << "b", "{", "$", "}", "+", "c" >>,
      << "b", ".", "y", "$", "*", "2" >>,
      << "(", "b", ">", "c", "[", "d", "=", "$", "$", "]", ")" >> }

\* a multiplied primary with children: P*n>C
NestedAbbreviations ==
    { p \o Times(n) \o << ">" >> \o c : p \in Parents, n \in Counts, c \in Children }

AttributeNames == { << "b" >>, << "c" >>, << "2" >>, << "1", "0" >>, << "0", "1" >> }

AttributeLists == UNION { [ 1..k -> AttributeNames ] : k \in 1..MaxAttrs }

\* one element with a list of bare attribute names
AttributeAbbreviations ==
    { e \o << "[" >> \o Join(names, << " " >>) \o << "]" >> :
        e \in { << "a" >>, << "a", "#", "i", ".", "c" >> }, names \in AttributeLists }

Texts == Strs({ "&", "<", ">", "\"", "x" }, MaxText)

\* text and quoted attribute values with the characters the renderer escapes
EscapedAbbreviations ==
    { << "a", "{" >> \o t \o << "}" >> : t \in Texts }
    \cup { << "a", "[", "b", "=", "'" >> \o t \o << "'", "]" >> : t \in Texts }
    \cup { << "p", ">", "a", "[", "b", "=", "'" >> \o t \o << "'", "]", "{" >>
             \o t \o << "}" >> : t \in Texts }

\* identifiers with a ':' in a tag, id, class or attribute name
ColonAbbreviations ==
    Strs({ "a", ":", "#", "." }, MaxLen)
    \cup { << "a", "[" >> \o n \o << "]" >> : n \in Strs({ "b", ":" }, 2) \ { << >> } }

\* a group followed by '>', its nodes with and without children of their own
GroupParentAbbreviations ==
    { << "(", "a", ")", ">", "c" >>,
      << "(", "a", "+", "b", ")", ">", "c" >>,
      << "(", "a", ">", "b", ")", ">", "c" >>,
      << "(", "a", ">", "b", "+", "d", ")", ">", "c" >>,
      << "(", "a", "+", "b", ">", "d", ")", ">", "c" >>,
      << "(", "(", "a", ">", "b", ")", ")", ">", "c", "+", "d" >>,
      << "(", "a", ">", "b", ")", "*", "2", ">", "c" >>,
      << "p", ">", "(", "a", ">", "b", ")", ">", "c" >> }

\* s is one of the abbreviations the model expands
IsAbbreviation(s) ==
    \/ s \in CombinatorAbbreviations
    \/ s \in IdAbbreviations
    \/ s \in NumberedAbbreviations
    \/ s \in RepeatedAbbreviations
    \/ s \in NestedAbbreviations
    \/ s \in AttributeAbbreviations
    \/ s \in EscapedAbbreviations
    \/ s \in ColonAbbreviations
    \/ s \in GroupParentAbbreviations

(***************************************************************************)
(* State.                                                                  *)
(***************************************************************************)
VARIABLES
    \* one call of expandAbbreviation
    input,              \* EmmetParser.input: the abbreviation of the call
    pc,                 \* where the call is
    pos,                \* EmmetParser.pos
    nodes,              \* the local `nodes` of the top-level parseExpression
    outcome,            \* what the call returned or threw
    \* the interactive surface
    abbreviation,       \* useState(examples[0])
    htmlOutput,         \* useState('')
    error,              \* useState<string | null>(null)
    copied,             \* useState(false)
    effectPending,      \* the expand effect is scheduled and has not run
    hung,               \* the expand effect was entered and does not return
    clipboardAvailable, \* navigator.clipboard is defined in this browser
    writes,             \* writeText calls handleCopy is awaiting
    \* the objects of one parse
    heap,               \* every object allocated so far, by address
    stack               \* the node arrays held by the parser's frames

callVars == << input, pc, pos, nodes, outcome >>

appVars == << abbreviation, htmlOutput, error, copied, effectPending, hung,
              clipboardAvailable, writes >>

heapVars == << heap, stack >>

vars == << input, pc, pos, nodes, outcome, abbreviation, htmlOutput, error,
           copied, effectPending, hung, clipboardAvailable, writes, heap,
           stack >>

NoOutcome == Outcome("none", << >>, << >>, NoError)

\* no call of expandAbbreviation is being made
CallIdle ==
    /\ input = << >>
    /\ pc = "idle"
    /\ pos = 0
    /\ nodes = << >>
    /\ outcome = NoOutcome

\* the interactive surface is not mounted
AppIdle ==
    /\ abbreviation = << >>
    /\ htmlOutput = << >>
    /\ error = None
    /\ copied = FALSE
    /\ effectPending = FALSE
    /\ hung = FALSE
    /\ clipboardAvailable = FALSE
    /\ writes = 0

\* no object has been allocated
HeapIdle ==
    /\ heap = << >>
    /\ stack = << >>

(***************************************************************************)
(* One call of expandAbbreviation, the top-level loop pass by pass.        *)
(***************************************************************************)
Init ==
    /\ IsAbbreviation(input)
    /\ pc = "call"
    /\ pos = 0
    /\ nodes = << >>
    /\ outcome = NoOutcome
    /\ AppIdle
    /\ HeapIdle

\* expandAbbreviation up to the call of parser.parse()
Expand ==
    /\ pc = "call"
    /\ IF Trim(input) = << >>
       THEN /\ pc' = "thrown"
            /\ outcome' = Outcome("throw", << >>, << >>,
                                  Error("Abbreviation is empty", "", -1))
       ELSE /\ pc' = "parseExpression"
            /\ outcome' = outcome
    /\ UNCHANGED << input, pos, nodes >>
    /\ UNCHANGED << appVars, heapVars >>

\* one pass of the while loop of parseExpression(new Set()) called by parse
ParseExpressionStep ==
    LET step(r) ==
            /\ r.ctl # "diverge"
            /\ pos' = r.pos
            /\ nodes' = IF r.ctl = "throw" THEN nodes ELSE nodes \o r.chunk
            /\ pc' = CASE r.ctl = "break" -> "parse"
                       [] r.ctl = "throw" -> "thrown"
                       [] r.ctl = "next" -> "parseExpression"
            /\ outcome' = IF r.ctl = "throw"
                          THEN Outcome("throw", << >>, << >>, r.err)
                          ELSE outcome
    IN  /\ pc = "parseExpression"
        /\ Len(nodes) < MaxNodes
        /\ step(ParseExpressionPass(input, pos, {}))
        /\ UNCHANGED input
        /\ UNCHANGED << appVars, heapVars >>

\* the rest of parse, after parseExpression returned
ParseReturn ==
    /\ pc = "parse"
    /\ pos' = SkipWhitespace(input, pos)
    /\ IF ~IsEnd(input, pos')
       THEN /\ pc' = "thrown"
            /\ outcome' = Outcome("throw", << >>, << >>,
                                  Error("Unexpected character", Peek(input, pos'), pos'))
       ELSE /\ pc' = "render"
            /\ outcome' = outcome
    /\ UNCHANGED << input, nodes >>
    /\ UNCHANGED << appVars, heapVars >>

\* expandAbbreviation after parser.parse() returned
Render ==
    /\ pc = "render"
    /\ IF NoNodes(nodes)
       THEN /\ pc' = "thrown"
            /\ outcome' = Outcome("throw", << >>, << >>,
                                  Error("No nodes produced for abbreviation", "", -1))
       ELSE /\ pc' = "done"
            /\ outcome' = Outcome("ok", RenderNodes(nodes), nodes, NoError)
    /\ UNCHANGED << input, pos, nodes >>
    /\ UNCHANGED << appVars, heapVars >>

Next == Expand \/ ParseExpressionStep \/ ParseReturn \/ Render

Spec == Init /\ [][Next]_vars

\* the call has ended
Ended == pc \in { "done", "thrown" }

(***************************************************************************)
(* The interactive surface (src/src/app.tsx).  A handler is one action;    *)
(* the expand effect runs after the render that follows a change of        *)
(* `abbreviation`, so other events may come before it.                     *)
(***************************************************************************)
examples ==
    <<
      << "u", "l", ">", "l", "i", ".", "i", "t", "e", "m", "$", "*", "3" >>,
      << "n", "a", "v", ">", "u", "l", ">", "l", "i", "*", "3", ">", "a",
         "{", "L", "i", "n", "k", " ", "$", "}" >>,
      << "s", "e", "c", "t", "i", "o", "n", ">", "h", "2", "{", "H", "e",
         "l", "l", "o", "}", "+", "p", "{", "L", "o", "r", "e", "m", " ",
         "i", "p", "s", "u", "m", " ", "d", "o", "l", "o", "r", " ", "s",
         "i", "t", " ", "a", "m", "e", "t", "}" >>,
      << "f", "o", "r", "m", ">", "l", "a", "b", "e", "l", "[", "f", "o",
         "r", "=", "e", "m", "a", "i", "l", "]", "{", "E", "m", "a", "i",
         "l", "}", "+", "i", "n", "p", "u", "t", "#", "e", "m", "a", "i",
         "l", "[", "t", "y", "p", "e", "=", "e", "m", "a", "i", "l", "]" >>
    >>

\* what the user types: every string over a few characters
TypedAbbreviations == Strs({ "a", "#", ")" }, MaxTyped)

ClipboardUnavailable ==
    Error("Clipboard API is not available in this browser", "", -1)

\* the message of the error writeText rejected with
UnableToCopy == Error("Unable to copy to clipboard", "", -1)

AppInit ==
    /\ CallIdle
    /\ HeapIdle
    /\ abbreviation = examples[1]
    /\ htmlOutput = << >>
    /\ error = None
    /\ copied = FALSE
    /\ effectPending = TRUE
    /\ hung = FALSE
    /\ clipboardAvailable \in BOOLEAN
    /\ writes = 0

\* whether the effect of [abbreviation] is scheduled after setAbbreviation(value):
\* a changed value renders again and schedules it
Scheduled(value) == effectPending \/ value # abbreviation

handleAbbreviationInput ==
    /\ ~hung
    /\ \E value \in TypedAbbreviations :
           /\ abbreviation' = value
           /\ effectPending' = Scheduled(value)
    /\ UNCHANGED << htmlOutput, error, copied, hung, clipboardAvailable, writes >>
    /\ UNCHANGED << callVars, heapVars >>

handleExampleClick ==
    /\ ~hung
    /\ \E i \in 1..Len(examples) :
           /\ abbreviation' = examples[i]
           /\ effectPending' = Scheduled(examples[i])
    /\ UNCHANGED << htmlOutput, error, copied, hung, clipboardAvailable, writes >>
    /\ UNCHANGED << callVars, heapVars >>

handleClear ==
    /\ ~hung
    /\ abbreviation' = << >>
    /\ effectPending' = Scheduled(<< >>)
    /\ UNCHANGED << htmlOutput, error, copied, hung, clipboardAvailable, writes >>
    /\ UNCHANGED << callVars, heapVars >>

\* the catch branch leaving the output as it was
HtmlOutputOnErrorKept(previous) == previous

\* setHtmlOutput('') of the catch branch
HtmlOutputOnError(previous) == << >>

\* the effect of [abbreviation]: try { expandAbbreviation } catch { ... };
\* a call that does not return leaves the page hung
ExpandEffect ==
    LET effect(r) ==
            /\ hung' = (r.st = "diverge")
            /\ effectPending' = (r.st = "diverge")
            /\ htmlOutput' = CASE r.st = "ok" -> r.html
                               [] r.st = "throw" -> HtmlOutputOnError(htmlOutput)
                               [] OTHER -> htmlOutput
            /\ error' = CASE r.st = "ok" -> None
                          [] r.st = "throw" -> Some(r.err)
                          [] OTHER -> error
    IN  /\ effectPending
        /\ ~hung
        /\ effect(ExpandAbbreviation(abbreviation))
        /\ UNCHANGED << abbreviation, copied, clipboardAvailable, writes >>
        /\ UNCHANGED << callVars, heapVars >>

\* handleCopy up to the await
handleCopy ==
    /\ ~hung
    /\ IF htmlOutput = << >>
       THEN UNCHANGED << error, writes >>
       ELSE IF ~clipboardAvailable
       THEN /\ error' = Some(ClipboardUnavailable)
            /\ UNCHANGED writes
       ELSE /\ writes < MaxCopies
            /\ writes' = writes + 1
            /\ UNCHANGED error
    /\ UNCHANGED << abbreviation, htmlOutput, copied, effectPending, hung,
                    clipboardAvailable >>
    /\ UNCHANGED << callVars, heapVars >>

\* handleCopy after the await, writeText fulfilled
CopyFulfilled ==
    /\ ~hung
    /\ writes > 0
    /\ writes' = writes - 1
    /\ copied' = TRUE
    /\ UNCHANGED << abbreviation, htmlOutput, error, effectPending, hung,
                    clipboardAvailable >>
    /\ UNCHANGED << callVars, heapVars >>

\* handleCopy after the await, writeText rejected
CopyRejected ==
    /\ ~hung
    /\ writes > 0
    /\ writes' = writes - 1
    /\ error' = Some(UnableToCopy)
    /\ UNCHANGED << abbreviation, htmlOutput, copied, effectPending, hung,
                    clipboardAvailable >>
    /\ UNCHANGED << callVars, heapVars >>

\* window.setTimeout(() => setCopied(false), 1500)
CopiedTimeout ==
    /\ ~hung
    /\ copied
    /\ copied' = FALSE
    /\ UNCHANGED << abbreviation, htmlOutput, error, effectPending, hung,
                    clipboardAvailable, writes >>
    /\ UNCHANGED << callVars, heapVars >>

AppNext ==
    \/ handleAbbreviationInput
    \/ handleExampleClick
    \/ handleClear
    \/ ExpandEffect
    \/ handleCopy
    \/ CopyFulfilled
    \/ CopyRejected
    \/ CopiedTimeout

AppSpec == AppInit /\ [][AppNext]_vars

(***************************************************************************)
(* The objects of a parse.  Every object literal and every array the       *)
(* parser builds is an allocation at a new address of the heap; a node     *)
(* holds the addresses of its classes array, its attributes object and its *)
(* children array.  The parser's combinators act on the node arrays their  *)
(* frames hold: the stack.  Strings and numbers are values: left out.      *)
(***************************************************************************)
\* the objects of a node literal: its attributes object and its classes
\* array, made before the children, ...
AttributesObject == [ kind |-> "attributes" ]
ClassesArray == [ kind |-> "classes" ]

\* ... its children array, ...
ChildrenArray(items) == [ kind |-> "children", items |-> items ]

\* ... and the node itself, holding the addresses of the three
NodeObject(classes, attributes, children) ==
    [ kind |-> "node", classes |-> classes, attributes |-> attributes,
      children |-> children ]

\* the items of the children array of the node at address a
ChildrenOf(h, a) == h[h[a].children].items

RECURSIVE CloneSize(_, _)
\* the number of objects cloneNode allocates for the nodes at as: four for
\* every node, their descendants included
CloneSize(h, as) ==
    IF as = << >> THEN 0
    ELSE 4 + CloneSize(h, ChildrenOf(h, Head(as))) + CloneSize(h, Tail(as))

RECURSIVE AllocCloneNode(_, _)
RECURSIVE AllocCloneEach(_, _)

\* cloneNode: clonedAttributes = {} at Len(h) + 1, then the returned literal:
\* classes (.map) at Len(h) + 2, the cloned children and their array (.map),
\* and last the node itself; val is its address
AllocCloneNode(h, a) ==
    LET literal(each) ==
            [ heap |-> each.heap \o
                       << ChildrenArray(each.val),
                          NodeObject(Len(h) + 2, Len(h) + 1, Len(each.heap) + 1) >>,
              val  |-> Len(each.heap) + 2 ]
    IN  literal(AllocCloneEach(h \o << AttributesObject, ClassesArray >>,
                               ChildrenOf(h, a)))

\* as.map((node) => cloneNode(node, ...)): the clones, in order
AllocCloneEach(h, as) ==
    IF as = << >> THEN [ heap |-> h, val |-> << >> ]
    ELSE LET rest(first) ==
                 LET both(others) ==
                         [ heap |-> others.heap,
                           val  |-> << first.val >> \o others.val ]
                 IN  both(AllocCloneEach(first.heap, Tail(as)))
         IN  rest(AllocCloneNode(h, Head(as)))

\* the array given back as it is, nothing cloned
AllocCloneNodesShared(h, as) == [ heap |-> h, val |-> as ]

\* cloneNodes
AllocCloneNodes(h, as) == AllocCloneEach(h, as)

RECURSIVE AllocRepeatNodes(_, _, _)
\* repeatNodes: count times, a clone of every node pushed on result
AllocRepeatNodes(h, as, count) ==
    IF count = 0 THEN [ heap |-> h, val |-> << >> ]
    ELSE LET last(before) ==
                 LET both(clones) ==
                         [ heap |-> clones.heap,
                           val  |-> before.val \o clones.val ]
                 IN  both(AllocCloneEach(before.heap, as))
         IN  last(AllocRepeatNodes(h, as, count - 1))

RECURSIVE AllocAttach(_, _, _)
\* parents.map((parent) => ({ ...parent, children: cloneNodes(children) })):
\* the array of the clones, and a new node that keeps the parent's classes
\* array and attributes object
AllocAttach(h, parents, children) ==
    IF parents = << >> THEN [ heap |-> h, val |-> << >> ]
    ELSE LET rest(spread) ==
                 LET both(others) ==
                         [ heap |-> others.heap,
                           val  |-> << spread.val >> \o others.val ]
                 IN  both(AllocAttach(spread.heap, Tail(parents), children))
             parent(each) ==
                 rest([ heap |-> each.heap \o
                                 << ChildrenArray(each.val),
                                    [ h[Head(parents)] EXCEPT
                                        !.children = Len(each.heap) + 1 ] >>,
                        val  |-> Len(each.heap) + 2 ])
         IN  parent(AllocCloneNodes(h, children))

\* the stack without its n topmost arrays
Under(n) == SubSeq(stack, 1, Len(stack) - n)

HeapInit ==
    /\ HeapIdle
    /\ CallIdle
    /\ AppIdle

\* parsePrimary: return [this.parseElement()], the node literal with its
\* classes: [], attributes: {} and children: []
ParseElementAlloc ==
    /\ Len(stack) < MaxStack
    /\ Len(heap) + 4 <= MaxHeap
    /\ heap' = heap \o << ClassesArray, AttributesObject, ChildrenArray(<< >>),
                          NodeObject(Len(heap) + 1, Len(heap) + 2, Len(heap) + 3) >>
    /\ stack' = Append(stack, << Len(heap) + 4 >>)
    /\ UNCHANGED << callVars, appVars >>

\* parsePrimary: a group whose parseExpression broke at once, "()"
ParseEmptyGroup ==
    /\ Len(stack) < MaxStack
    /\ stack' = Append(stack, << >>)
    /\ UNCHANGED heap
    /\ UNCHANGED << callVars, appVars >>

\* parseExpression: nodes.push(...chunk)
PushChunk ==
    /\ Len(stack) >= 2
    /\ stack' = Append(Under(2), stack[Len(stack) - 1] \o stack[Len(stack)])
    /\ UNCHANGED heap
    /\ UNCHANGED << callVars, appVars >>

\* applyMultiplier: return repeatNodes(nodes, count)
ApplyMultiplierAlloc ==
    LET repeated(r) ==
            /\ heap' = r.heap
            /\ stack' = Append(Under(1), r.val)
    IN  /\ Len(stack) >= 1
        /\ \E count \in 1..MaxRepeat :
               /\ Len(heap) + count * CloneSize(heap, stack[Len(stack)]) <= MaxHeap
               /\ repeated(AllocRepeatNodes(heap, stack[Len(stack)], count))
        /\ UNCHANGED << callVars, appVars >>

\* parseChildTerm: parents = parents.map(...) with the children just parsed
AttachChildrenAlloc ==
    LET attached(r) ==
            /\ heap' = r.heap
            /\ stack' = Append(Under(2), r.val)
    IN  /\ Len(stack) >= 2
        /\ Len(heap) + Len(stack[Len(stack) - 1])
                         * (2 + CloneSize(heap, stack[Len(stack)])) <= MaxHeap
        /\ attached(AllocAttach(heap, stack[Len(stack) - 1], stack[Len(stack)]))
        /\ UNCHANGED << callVars, appVars >>

HeapNext ==
    \/ ParseElementAlloc
    \/ ParseEmptyGroup
    \/ PushChunk
    \/ ApplyMultiplierAlloc
    \/ AttachChildrenAlloc

HeapSpec == HeapInit /\ [][HeapNext]_vars

(***************************************************************************)
(* Properties of one call of expandAbbreviation (specification Spec).      *)
(***************************************************************************)
\* C1: every call of expandAbbreviation ends: a pass of the loop of
\* parseExpression that goes round again has consumed at least one
\* character of the input (the other passes break or throw), also when the
\* input holds a ')' that closes no group.
C1_EveryPassConsumesBreaksOrThrows ==
    [][(pc = "parseExpression" /\ pc' = "parseExpression") => pos' > pos]_vars

RECURSIVE TrimEnd(_)
\* s without the whitespace at its end
TrimEnd(s) ==
    IF s # << >> /\ s[Len(s)] \in WhitespaceChars
    THEN TrimEnd(SubSeq(s, 1, Len(s) - 1))
    ELSE s

\* C2: whitespace after an abbreviation that expands is ignored: the
\* abbreviation followed by whitespace expands too, to the same html.
C2_TrailingWhitespaceIsIgnored ==
    LET same(expected) ==
            expected.st = "ok"
                => (outcome.st = "ok" /\ outcome.html = expected.html)
    IN  (Ended /\ TrimEnd(input) # input)
            => same(ExpandAbbreviation(TrimEnd(input)))

\* C3: a call never returns an empty forest: an empty or all-whitespace
\* input throws 'Abbreviation is empty' before the parser is used, a parse
\* that yields no node throws, and what is returned holds a node.
C3_NeverAnEmptyForest ==
    /\ (Trim(input) = << >> /\ pc # "call")
           => /\ pc = "thrown"
              /\ outcome.err.message = "Abbreviation is empty"
              /\ pos = 0
              /\ nodes = << >>
    /\ (Ended /\ Trim(input) # << >> /\ Parse(input) = Ok(Len(input), << >>))
           => /\ pc = "thrown"
              /\ outcome.err.message = "No nodes produced for abbreviation"
    /\ pc = "done"
           => /\ outcome.st = "ok"
              /\ Len(outcome.nodes) >= 1
              /\ outcome.nodes = nodes

\* the abbreviation "()" was rejected for producing no node
C3_Witness ==
    /\ pc = "thrown"
    /\ input = << "(", ")" >>
    /\ outcome.err.message = "No nodes produced for abbreviation"

\* the tags of a sequence of nodes
Tags(ns) == [ k \in 1..Len(ns) |-> ns[k].tag ]

\* C4: a multiplied group (g)*n yields n * len nodes, len the number of
\* nodes of g, and the node at i * len + j (i from 0, j from 1) is the
\* clone of node j of g numbered with repetition i; (a+b)*2 yields a, b, a, b.
C4_RepeatNodesInRepetitionOrder ==
    LET inOrder(base, n) ==
            /\ Len(outcome.nodes) = n * Len(base)
            /\ \A i \in 0..(n - 1) : \A j \in 1..Len(base) :
                   outcome.nodes[i * Len(base) + j] = CloneNode(base[j], i, TRUE)
    IN  pc = "done" =>
            /\ \A g \in GroupBodies : \A n \in Counts :
                   input = << "(" >> \o g \o << ")" >> \o Times(n)
                       => inOrder(ParseExpression(g, 0, { ")" }).val, n)
            /\ input = << "(", "a", "+", "b", ")", "*", "2" >>
                   => Tags(outcome.nodes) = << << "a" >>, << "b" >>, << "a" >>, << "b" >> >>

\* (a.x$+b#y$$)*2 was expanded: the second b is numbered 02
C4_Witness ==
    /\ pc = "done"
    /\ input = << "(", "a", ".", "x", "$", "+", "b", "#", "y", "$", "$", ")", "*", "2" >>
    /\ Len(outcome.nodes) = 4
    /\ outcome.nodes[4].id = Some(<< "y", "0", "2" >>)

\* the characters of s that are in keep
Only(s, keep) == SelectSeq(s, LAMBDA c : c \in keep)

\* the numbered string `value` is `template` with every run of '$' replaced
\* by a decimal string of the number `number`, padded with '0' to the width
\* of the run and no further (the templates hold '$' and the letter x)
IsNumbered(template, value, number) ==
    LET runs == Split(template, "x")
        fills == Split(value, "x")
    IN  /\ Len(fills) = Len(runs)
        /\ \A g \in 1..Len(runs) :
               IF runs[g] = << >> THEN fills[g] = << >>
               ELSE /\ \A k \in 1..Len(fills[g]) : fills[g][k] \in DigitChars
                    /\ Len(fills[g]) >= Len(runs[g])
                    /\ Len(fills[g]) > Len(runs[g]) => fills[g][1] # "0"
                    /\ ParseInt(fills[g]) = number

\* the string of a node that the family of numbered abbreviations numbers
NumberedField(node) ==
    CASE node.id # None -> Val(node.id)
      [] node.classes # << >> -> node.classes[1]
      [] node.attributes # << >> -> node.attributes[1].value.value
      [] OTHER -> Val(node.text)

\* C5: with a multiplier n, every run of w '$' in an id, a class, a string
\* attribute value or a text is replaced in repetition i (from 0) by i + 1
\* in decimal, padded with '0' to width w: only digits, at least w of them,
\* denoting a number in 1..n, the same for every run of the string.
C5_NumberingIsPaddedOneBased ==
    LET template == Only(input, { "x", "$" })
        n == Len(outcome.nodes)
    IN  (pc = "done" /\ input \in NumberedAbbreviations)
            => /\ input[Len(input) - Len(NumberToString(n)) ] = "*"
               /\ ParseInt(Only(input, DigitChars)) = n
               /\ \A k \in 1..n :
                      /\ k \in 1..n
                      /\ IsNumbered(template, NumberedField(outcome.nodes[k]), k)

\* a#$*10 was expanded: the tenth id is wider than its placeholder
C5_Witness ==
    /\ pc = "done"
    /\ input = << "a", "#", "$", "*", "1", "0" >>
    /\ outcome.nodes[10].id = Some(<< "1", "0" >>)
    /\ outcome.nodes[9].id = Some(<< "9" >>)

RECURSIVE FirstWritten(_)
\* the names of a list, each at the place it is first written
FirstWritten(names) ==
    IF names = << >> THEN << >>
    ELSE LET front == FirstWritten(SubSeq(names, 1, Len(names) - 1))
         IN  IF \E i \in 1..Len(front) : front[i] = names[Len(names)]
             THEN front ELSE Append(front, names[Len(names)])

\* C6: the attributes are rendered id first, then class, then the others
\* in the order in which their names are first written in the [...] list,
\* whatever names the parser accepts, names made of digits included.
C6_AttributesInWrittenOrder ==
    LET written(e, names) == e \o << "[" >> \o Join(names, << " " >>) \o << "]" >>
        rendered(front, names) ==
            << "<", "a", " " >> \o front \o Join(FirstWritten(names), << " " >>)
            \o << ">", "<", "/", "a", ">" >>
    IN  pc = "done" =>
            \A names \in AttributeLists :
                /\ input = written(<< "a" >>, names)
                       => outcome.html = rendered(<< >>, names)
                /\ input = written(<< "a", "#", "i", ".", "c" >>, names)
                       => outcome.html =
                              rendered(<< "i", "d", "=", "\"", "i", "\"", " ",
                                          "c", "l", "a", "s", "s", "=", "\"", "c",
                                          "\"", " " >>, names)

\* the number of times c occurs in s
Count(s, c) == Len(SelectSeq(s, LAMBDA d : d = c))

RECURSIVE NodeCount(_)
\* the number of nodes of a forest
NodeCount(ns) ==
    IF ns = << >> THEN 0
    ELSE 1 + NodeCount(Head(ns).children) + NodeCount(Tail(ns))

RECURSIVE QuotedCount(_)
\* the number of quoted values the renderer writes for a forest: one for an
\* id, one for the classes, one for each string attribute
QuotedCount(ns) ==
    IF ns = << >> THEN 0
    ELSE (IF Head(ns).id # None THEN 1 ELSE 0)
         + (IF Head(ns).classes # << >> THEN 1 ELSE 0)
         + Len(SelectSeq(Head(ns).attributes, LAMBDA e : ~e.value.flag))
         + QuotedCount(Head(ns).children) + QuotedCount(Tail(ns))

RECURSIVE TextQuotes(_)
\* the number of '"' in the texts of a forest
TextQuotes(ns) ==
    IF ns = << >> THEN 0
    ELSE (IF Head(ns).text # None THEN Count(Val(Head(ns).text), "\"") ELSE 0)
         + TextQuotes(Head(ns).children) + TextQuotes(Tail(ns))

\* s with each character replaced on its own: '&', '<', '>' and, in an
\* attribute value, '"'
Escaped(s, inAttribute) ==
    Concat([ i \in 1..Len(s) |->
               CASE s[i] = "&" -> Amp
                 [] s[i] = "<" -> Lt
                 [] s[i] = ">" -> Gt
                 [] s[i] = "\"" /\ inAttribute -> Quot
                 [] OTHER -> << s[i] >> ])

\* C7: in the html every text has '&', '<', '>' replaced by the entities,
\* every attribute value has '"' replaced as well, and nothing else is
\* changed; so '<' and '>' only delimit the tags and no value holds a raw '"'.
C7_OnlyTheSpecialCharactersAreEscaped ==
    LET open == << "<", "a", " ", "b", "=", "\"" >>
    IN  pc = "done" =>
            /\ Count(outcome.html, "<") = 2 * NodeCount(outcome.nodes)
            /\ Count(outcome.html, ">") = 2 * NodeCount(outcome.nodes)
            /\ Count(outcome.html, "\"") = 2 * QuotedCount(outcome.nodes)
                                             + TextQuotes(outcome.nodes)
            /\ \A t \in Texts :
                   /\ input = << "a", "{" >> \o t \o << "}" >>
                          => outcome.html = << "<", "a", ">" >> \o Escaped(t, FALSE)
                                            \o << "<", "/", "a", ">" >>
                   /\ input = << "a", "[", "b", "=", "'" >> \o t \o << "'", "]" >>
                          => outcome.html = open \o Escaped(t, TRUE)
                                            \o << "\"", ">", "<", "/", "a", ">" >>
                   /\ input = << "p", ">", "a", "[", "b", "=", "'" >> \o t
                              \o << "'", "]", "{" >> \o t \o << "}" >>
                          => outcome.html =
                                 << "<", "p", ">", "\n", " ", " " >> \o open
                                 \o Escaped(t, TRUE) \o << "\"", ">" >>
                                 \o Escaped(t, FALSE) \o << "<", "/", "a", ">" >>
                                 \o << "\n", "<", "/", "p", ">" >>

\* a[b='<"'] was expanded: both characters are entities in the value
C7_Witness ==
    /\ pc = "done"
    /\ input = << "a", "[", "b", "=", "'", "<", "\"", "'", "]" >>
    /\ outcome.html = << "<", "a", " ", "b", "=", "\"", "&", "l", "t", ";",
                         "&", "q", "u", "o", "t", ";", "\"", ">",
                         "<", "/", "a", ">" >>

\* the '#' at place j of s follows another '#' of the same element, with
\* nothing but identifier characters and '.' between the two
SecondIdSegment(s, j) ==
    /\ s[j] = "#"
    /\ \E i \in 1..(j - 1) :
           /\ s[i] = "#"
           /\ \A k \in (i + 1)..(j - 1) : s[k] \in IDENTIFIER_CHARS \cup { "." }
           /\ \A k \in 1..i : s[k] \notin { "{", "[", "\\" }

\* C8: an id is set once: when the parser comes to a second '#' segment of
\* an element (what is before it being well formed), the call throws the
\* duplicate-id error with the position after that '#', and returns neither
\* nodes nor html; a call that returns has met no second '#' segment.
C8_SecondIdSegmentIsAnError ==
    LET met(j, before) ==
            before.st = "ok"
                => /\ pc = "thrown"
                   /\ outcome = Outcome("throw", << >>, << >>,
                                        Error("Duplicate id segment", "", j))
    IN  /\ Ended =>
               \A j \in 1..Len(input) :
                   SecondIdSegment(input, j)
                       => met(j, Parse(SubSeq(input, 1, j - 1)))
        /\ pc = "done" => \A j \in 1..Len(input) : ~SecondIdSegment(input, j)
        /\ pc = "thrown" => (outcome.nodes = << >> /\ outcome.html = << >>)

\* a#a#a was rejected at its second '#'
C8_Witness ==
    /\ pc = "thrown"
    /\ input = << "a", "#", "a", "#", "a" >>
    /\ outcome.err = Error("Duplicate id segment", "", 4)

\* C9: as stated: once the expand effect has run for the current
\* abbreviation, whenever an error is displayed the displayed html is empty,
\* and a non-empty displayed html is the expansion of the current
\* abbreviation.
C9_ErrorMeansNoOutput ==
    LET shown(r) ==
            /\ error # None => htmlOutput = << >>
            /\ htmlOutput # << >> => htmlOutput = r.html
    IN  ~effectPending => shown(ExpandAbbreviation(abbreviation))

\* C9: once the expand effect has run for the current abbreviation: if the
\* expansion fails the displayed html is empty and an error is displayed; if
\* it succeeds the displayed html is that expansion, and an error displayed
\* beside it can only be the failure of a copy action.
C9_NoStaleOutputAfterExpand ==
    LET shown(r) ==
            /\ r.st = "throw" => (htmlOutput = << >> /\ error # None)
            /\ r.st = "ok" =>
                   /\ htmlOutput = r.html
                   /\ error \in { None, Some(ClipboardUnavailable),
                                  Some(UnableToCopy) }
    IN  ~effectPending => shown(ExpandAbbreviation(abbreviation))

\* the typed abbreviation "#" was rejected by the expand effect
C9_Witness ==
    /\ ~effectPending
    /\ abbreviation = << "#" >>
    /\ htmlOutput = << >>
    /\ error = Some(Error("Expected id after #", "", 1))

\* a node without its children
Childless(node) == [ node EXCEPT !.children = << >> ]

\* C10: in P*n>C the multiplier is applied to P before '>' is parsed: the
\* result is the n numbered clones of P in order, and the children of each
\* are a copy of the parsed C with no numbering of P's multiplier applied
\* to it (its '$' stay), the same for all.
C10_MultiplierBeforeNesting ==
    LET nested(parent, children, n) ==
            /\ Len(outcome.nodes) = n * Len(parent)
            /\ \A i \in 0..(n - 1) : \A j \in 1..Len(parent) :
                   /\ Childless(outcome.nodes[i * Len(parent) + j])
                          = Childless(CloneNode(parent[j], i, TRUE))
                   /\ outcome.nodes[i * Len(parent) + j].children = children
    IN  pc = "done" =>
            \A p \in Parents : \A c \in Children : \A n \in Counts :
                input = p \o Times(n) \o << ">" >> \o c
                    => nested(ParsePrimary(p, 0, {}).val,
                              ParseExpression(c, 0, { ")" }).val, n)

\* a.c$*2>b.x$ was expanded: the parents are numbered, the children are not
C10_Witness ==
    /\ pc = "done"
    /\ input = << "a", ".", "c", "$", "*", "2", ">", "b", ".", "x", "$" >>
    /\ outcome.nodes[2].classes = << << "c", "2" >> >>
    /\ outcome.nodes[2].children[1].classes = << << "x", "$" >> >>

\* letters, digits, hyphen, underscore and '$'
NameChars == LetterChars \cup DigitChars \cup { "-", "_", "$" }

RECURSIVE NamesOf(_)
\* the tag, id, classes and attribute names of every node of a forest
NamesOf(ns) ==
    IF ns = << >> THEN { }
    ELSE { Head(ns).tag }
         \cup (IF Head(ns).id # None THEN { Val(Head(ns).id) } ELSE { })
         \cup { Head(ns).classes[i] : i \in 1..Len(Head(ns).classes) }
         \cup { Head(ns).attributes[i].key : i \in 1..Len(Head(ns).attributes) }
         \cup NamesOf(Head(ns).children) \cup NamesOf(Tail(ns))

\* C11: the tag, id, classes and attribute names of the returned nodes are
\* made of letters, digits, hyphen, underscore and '$' only: any other
\* character, ':' included, ends the identifier and is in no name.
C11_NamesAreLettersDigitsHyphenUnderscoreDollar ==
    pc = "done" =>
        \A name \in NamesOf(outcome.nodes) :
            \A i \in 1..Len(name) : name[i] \in NameChars

RECURSIVE TagsOf(_)
\* the tags of every node of a forest
TagsOf(ns) ==
    IF ns = << >> THEN { }
    ELSE { Head(ns).tag } \cup TagsOf(Head(ns).children) \cup TagsOf(Tail(ns))

\* C13: '>' after a group only adds children: the nodes of the group keep
\* the children they had, so every element written in the abbreviation is a
\* node of the result (in these abbreviations every letter is an element).
C13_NestingKeepsTheChildrenOfAGroup ==
    (pc = "done" /\ input \in GroupParentAbbreviations) =>
        \A i \in 1..Len(input) :
            input[i] \in LetterChars => << input[i] >> \in TagsOf(outcome.nodes)

RECURSIVE Positions(_, _)
\* the node at every position of a forest, parents before children: an
\* object held at two positions is listed twice
Positions(h, as) ==
    IF as = << >> THEN << >>
    ELSE << Head(as) >> \o Positions(h, ChildrenOf(h, Head(as)))
                        \o Positions(h, Tail(as))

\* no two places of as hold the same address
Apart(as) == \A i, j \in 1..Len(as) : as[i] = as[j] => i = j

\* C12: in the node arrays the parser holds, the returned forest included,
\* no object is at two positions: the node objects, their classes arrays,
\* their attributes objects and their children arrays are pairwise distinct.
C12_NoObjectAtTwoPositions ==
    LET distinct(ps) ==
            /\ Apart(ps)
            /\ Apart([ i \in 1..Len(ps) |-> heap[ps[i]].classes ])
            /\ Apart([ i \in 1..Len(ps) |-> heap[ps[i]].attributes ])
            /\ Apart([ i \in 1..Len(ps) |-> heap[ps[i]].children ])
    IN  distinct(Positions(heap, Concat(stack)))

\* one forest of two roots with a child each, built with clones: more
\* objects were allocated than the forest holds
C12_Witness ==
    /\ Len(stack) = 1
    /\ Len(stack[1]) = 2
    /\ \A i \in 1..2 : Len(ChildrenOf(heap, stack[1][i])) = 1
    /\ Len(heap) > 4 * Len(Positions(heap, stack[1]))

=============================================================================
